---------------------------- MODULE Spec2Model ----------------------------
(***************************************************************************)
(* Model of the emission engine of src/emissions/emission_calculator.py:   *)
(* the EmissionCalculator object (its emission_factors catalog) and its    *)
(* operations calculate_emissions, compare_transport_modes,                *)
(* calculate_carbon_tax_cost and get_emission_factors_table, and           *)
(* EmissionOptimizer.find_greenest_option.                                 *)
(*                                                                         *)
(* Spec is one caller making one call at a time on a constructed           *)
(* calculator; SpecRepeat lets the caller also make its last call again;   *)
(* SpecProcess is a process from its start, constructing objects and       *)
(* calculating; SpecConcurrent is two callers whose calls on one           *)
(* calculator run line by line and interleave.                             *)
(*                                                                         *)
(* Numbers.  The code computes with binary doubles and rounds to a fixed   *)
(* number of decimals.  The model computes with exact fixed-point          *)
(* integers:                                                               *)
(*   distance_km      in tenths of a kilometre   (5000 is 500 km)          *)
(*   weight_tonnes    in tenths of a tonne       (20 is 2 t)               *)
(*   emission factor  in thousandths of kg CO2 per tonne-km (22 is 0.022)  *)
(*   co2_emissions_kg in thousandths of a kilogram (22000 is 22.0 kg)      *)
(*   co2_emissions_tonnes in millionths of a tonne                         *)
(*   carbon tax rate  in whole dollars per tonne, cost in cents            *)
(*   percentages      in tenths of a percent                               *)
(*   max_time_penalty_percent in hundredths of a percent                   *)
(*   travel times     as exact fractions of an hour                        *)
(* round(x, k) is rounding of the exact value to the nearest multiple of   *)
(* 10^-k, an exact half going to the even neighbour.  A double never holds *)
(* an exact decimal half of this kind, so on such a value the code's       *)
(* result is decided by the representation error of the product; the       *)
(* input grids below hold no value whose product is an exact decimal half  *)
(* at the rounding step of calculate_emissions or                          *)
(* calculate_carbon_tax_cost (calculate_emissions alone is also called on  *)
(* HalfShipments, where its two roundings are float outcomes).  On the     *)
(* grids the rounded values of the model are those of the code's double    *)
(* arithmetic, the percentages of compare_transport_modes included.        *)
(* find_greenest_option does meet such                                     *)
(* values (a difference of two rounded emissions that ends in a 5, a       *)
(* penalty equal to the bound): there the outcome of the double arithmetic *)
(* is an input of the operator, fp, and the action takes either outcome.   *)
(***************************************************************************)
EXTENDS Integers, Sequences, FiniteSets

VARIABLES
    emission_factors,   \* EmissionCalculator.emission_factors (the catalog)
    call,               \* the last call made on the calculator, with its arguments
    result,             \* what that call returned, or the exception it raised
    loads,              \* how many times _load_emission_factors has run in the process
    threads             \* the calls in progress of the concurrent callers

vars == <<emission_factors, call, result, loads, threads>>

(***************************************************************************)
(* Bounds of the input grids.                                              *)
(***************************************************************************)
\* distances -1 .. MaxDist tenths of a km (negative and zero included)
MaxDist == 3
\* weights -1 .. MaxWeight tenths of a tonne (negative and zero included)
MaxWeight == 3
\* longest explicit modes list passed to compare_transport_modes
MaxModes == 3
\* carbon tax is asked for -1 .. MaxTaxKg whole kilograms
MaxTaxKg == 3
\* explicit carbon tax rates 0 .. MaxRate dollars per tonne
MaxRate == 3

\* longest candidate list passed to find_greenest_option (the list of the
\* documented scenario, of three modes, is added to the lists)
MaxCandidates == 2

\* 500 km and 2 t, the shipment of the documented scenarios, join the grids.
Distances == (-1 .. MaxDist) \cup {5000}
Weights == (-1 .. MaxWeight) \cup {20}

(***************************************************************************)
(* TransportMode and the catalog.                                          *)
(***************************************************************************)
\* list(TransportMode): the members in definition order, by value.
TransportMode ==
    <<"road_truck", "road_van", "rail", "air_cargo", "ship_container", "ship_bulk">>

TransportModes == {TransportMode[i] : i \in 1 .. Len(TransportMode)}

\* A hashable value that is no member of TransportMode, as a caller may pass.
OtherModes == {"bicycle"}

Modes == TransportModes \cup OtherModes

EmissionFactor(mode, factor, description, source) ==
    [mode |-> mode, factor_kg_co2_per_tonne_km |-> factor,
     description |-> description, source |-> source]

\* The catalog with the last member of TransportMode left out.
load_emission_factors_without_bulk ==
    [m \in TransportModes \ {"ship_bulk"} |->
        EmissionFactor(m, IF m = "rail" THEN 22 ELSE 62, "", "IPCC 2019 Guidelines")]

load_emission_factors ==
    [m \in TransportModes |->
        CASE m = "road_truck" ->
                EmissionFactor("road_truck", 62,
                               "Heavy duty truck (>32 tonnes)", "IPCC 2019 Guidelines")
          [] m = "road_van" ->
                EmissionFactor("road_van", 158,
                               "Light commercial vehicle (<3.5 tonnes)", "IPCC 2019 Guidelines")
          [] m = "rail" ->
                EmissionFactor("rail", 22,
                               "Electric/diesel freight train", "IPCC 2019 Guidelines")
          [] m = "air_cargo" ->
                EmissionFactor("air_cargo", 602,
                               "Air cargo freight", "IPCC 2019 Guidelines")
          [] m = "ship_container" ->
                EmissionFactor("ship_container", 11,
                               "Container ship", "IMO Fourth GHG Study 2020")
          [] m = "ship_bulk" ->
                EmissionFactor("ship_bulk", 8,
                               "Bulk carrier ship", "IMO Fourth GHG Study 2020")]

(***************************************************************************)
(* round(): n/d rounded to the nearest integer, an exact half to even.     *)
(* d > 0; \div is the floor division, so negative n round correctly.       *)
(***************************************************************************)
RoundTruncated(n, d) == n \div d

RoundCoarse(n, d) ==
    LET q == n \div (100 * d)
        r == n % (100 * d)
    IN  IF 2 * r < 100 * d THEN 100 * q ELSE 100 * (q + 1)

Round(n, d) ==
    LET q == n \div d
        r == n % d
    IN  IF 2 * r < d THEN q
        ELSE IF 2 * r > d THEN q + 1
        ELSE IF q % 2 = 0 THEN q ELSE q + 1

\* (tenths of km) x (tenths of t) x (thousandths of kg) per thousandth of a kg
KgGrid == 10 * 10

(***************************************************************************)
(* EmissionCalculator.calculate_emissions                                  *)
(***************************************************************************)
calculate_emissions_default_factor(self, distance_km, weight_tonnes, transport_mode) ==
    LET f == IF transport_mode \in DOMAIN self
             THEN self[transport_mode].factor_kg_co2_per_tonne_km ELSE 62
    IN  [status |-> "ok",
         co2_emissions_kg |-> Round(distance_km * weight_tonnes * f, KgGrid),
         co2_emissions_tonnes |-> Round(distance_km * weight_tonnes * f, KgGrid),
         distance_km |-> distance_km,
         weight_tonnes |-> weight_tonnes,
         transport_mode |-> transport_mode,
         emission_factor |-> f,
         emission_factor_source |-> "IPCC 2019 Guidelines"]

calculate_emissions(self, distance_km, weight_tonnes, transport_mode) ==
    IF transport_mode \notin DOMAIN self
    THEN [status |-> "ValueError"]
    ELSE LET factor == self[transport_mode]
             \* co2_kg, exact, in units of 1/KgGrid thousandths of a kg
             co2_kg == distance_km * weight_tonnes * factor.factor_kg_co2_per_tonne_km
             \* co2_kg / 1000: the same number counted in millionths of a tonne
             co2_tonnes == co2_kg
         IN  [status |-> "ok",
              co2_emissions_kg |-> Round(co2_kg, KgGrid),
              co2_emissions_tonnes |-> Round(co2_tonnes, KgGrid),
              distance_km |-> distance_km,
              weight_tonnes |-> weight_tonnes,
              transport_mode |-> transport_mode,
              emission_factor |-> factor.factor_kg_co2_per_tonne_km,
              emission_factor_source |-> factor.source]

(***************************************************************************)
(* EmissionCalculator.compare_transport_modes                              *)
(***************************************************************************)
\* The loop over the requested modes: a row per mode whose calculation
\* succeeds, in the order of the request; a ValueError skips the mode.
compare_rows_break(self, distance_km, weight_tonnes, modes) ==
    LET acc[i \in 0 .. Len(modes)] ==
            IF i = 0 THEN [rows |-> <<>>, stopped |-> FALSE]
            ELSE LET emissions == calculate_emissions(self, distance_km, weight_tonnes, modes[i])
                 IN  IF acc[i - 1].stopped \/ emissions.status # "ok"
                     THEN [rows |-> acc[i - 1].rows, stopped |-> TRUE]
                     ELSE [rows |-> Append(acc[i - 1].rows,
                                      [transport_mode |-> modes[i],
                                       co2_emissions_kg |-> emissions.co2_emissions_kg,
                                       emission_factor |-> emissions.emission_factor,
                                       description |-> self[modes[i]].description]),
                           stopped |-> FALSE]
    IN  acc[Len(modes)].rows

compare_rows(self, distance_km, weight_tonnes, modes) ==
    LET acc[i \in 0 .. Len(modes)] ==
            IF i = 0 THEN <<>>
            ELSE LET emissions == calculate_emissions(self, distance_km, weight_tonnes, modes[i])
                 IN  IF emissions.status = "ok"
                     THEN Append(acc[i - 1],
                                 [transport_mode |-> modes[i],
                                  co2_emissions_kg |-> emissions.co2_emissions_kg,
                                  emission_factor |-> emissions.emission_factor,
                                  description |-> self[modes[i]].description])
                     ELSE acc[i - 1]
    IN  acc[Len(modes)]

\* The orders of the indices S of rows that are non-decreasing in co2_emissions_kg.
RECURSIVE SortedOrders(_, _)
SortedOrders(rows, S) ==
    IF S = {} THEN {<<>>}
    ELSE UNION {{<<i>> \o t : t \in SortedOrders(rows, S \ {i})} :
                i \in {j \in S : \A k \in S :
                          rows[j].co2_emissions_kg <= rows[k].co2_emissions_kg}}

sort_values_unsorted(rows) == {rows}

\* df.sort_values('co2_emissions_kg'): pandas' default kind is 'quicksort', which
\* is not stable, so rows of equal co2_emissions_kg may come out in any order:
\* the set of the outcomes a build can produce.
sort_values(rows) ==
    {[k \in 1 .. Len(rows) |-> rows[p[k]]] : p \in SortedOrders(rows, 1 .. Len(rows))}

SeriesMax(rows) ==
    CHOOSE v \in {rows[i].co2_emissions_kg : i \in 1 .. Len(rows)} :
        \A i \in 1 .. Len(rows) : v >= rows[i].co2_emissions_kg

\* df['co2_emissions_kg'].min(), of a non-empty frame
SeriesMin(rows) ==
    CHOOSE v \in {rows[i].co2_emissions_kg : i \in 1 .. Len(rows)} :
        \A i \in 1 .. Len(rows) : v <= rows[i].co2_emissions_kg

\* A float: a finite number (here in tenths of a percent), or what IEEE 754
\* division by zero gives (pandas raises nothing): 0/0 is NaN, x/0 is infinite.
Finite(v) == [kind |-> "finite", value |-> v]
NaN == [kind |-> "nan"]
Infinity == [kind |-> "inf"]

\* ((x / best - 1) * 100).round(1)
PercentageVsBest(x, best) ==
    IF best = 0 THEN (IF x = 0 THEN NaN ELSE Infinity)
    ELSE IF best > 0 THEN Finite(Round((x - best) * 1000, best))
    ELSE Finite(Round((best - x) * 1000, 0 - best))

\* The columns added to the sorted, non-empty frame.
WithRanks(df) ==
    [k \in 1 .. Len(df) |->
        [transport_mode |-> df[k].transport_mode,
         co2_emissions_kg |-> df[k].co2_emissions_kg,
         emission_factor |-> df[k].emission_factor,
         description |-> df[k].description,
         emission_rank |-> k,
         emission_difference_vs_best |-> df[k].co2_emissions_kg - SeriesMin(df),
         emission_percentage_vs_best |->
             PercentageVsBest(df[k].co2_emissions_kg, SeriesMin(df))]]

compare_transport_modes_unguarded(self, distance_km, weight_tonnes, modes_is_none, modes) ==
    LET requested == IF modes_is_none THEN TransportMode ELSE modes
        results == compare_rows(self, distance_km, weight_tonnes, requested)
    IN  IF results = <<>> THEN {[status |-> "KeyError"]}
        ELSE {[status |-> "ok", rows |-> WithRanks(df)] : df \in sort_values(results)}

\* The set of the frames the call may return (one, but for the order of ties).
compare_transport_modes(self, distance_km, weight_tonnes, modes_is_none, modes) ==
    LET requested == IF modes_is_none THEN TransportMode ELSE modes
        results == compare_rows(self, distance_km, weight_tonnes, requested)
    IN  IF results # <<>>
        THEN {[status |-> "ok", rows |-> WithRanks(df)] : df \in sort_values(results)}
        ELSE {[status |-> "ok", rows |-> <<>>]}

(***************************************************************************)
(* EmissionCalculator.calculate_carbon_tax_cost                            *)
(***************************************************************************)
DefaultCarbonTaxRate == 50

\* (thousandths of a kg) x (dollars per tonne) per cent
CentGrid == 100 * 100

calculate_carbon_tax_cost_fixed_rate(co2_emissions_kg, rate_given, rate) ==
    [status |-> "ok",
     co2_emissions_kg |-> co2_emissions_kg,
     co2_emissions_tonnes |-> co2_emissions_kg,
     carbon_tax_rate_per_tonne |-> DefaultCarbonTaxRate,
     carbon_tax_cost_usd |-> Round(co2_emissions_kg * DefaultCarbonTaxRate, CentGrid)]

calculate_carbon_tax_cost(co2_emissions_kg, rate_given, rate) ==
    LET carbon_tax_rate_per_tonne == IF rate_given THEN rate ELSE DefaultCarbonTaxRate
        \* co2_emissions_kg / 1000: the same number counted in millionths of a tonne
        co2_tonnes == co2_emissions_kg
        \* exact, in units of 1/CentGrid cents
        carbon_tax_cost == co2_tonnes * carbon_tax_rate_per_tonne
    IN  [status |-> "ok",
         co2_emissions_kg |-> co2_emissions_kg,
         co2_emissions_tonnes |-> co2_tonnes,
         carbon_tax_rate_per_tonne |-> carbon_tax_rate_per_tonne,
         carbon_tax_cost_usd |-> Round(carbon_tax_cost, CentGrid)]

(***************************************************************************)
(* EmissionCalculator.get_emission_factors_table                           *)
(***************************************************************************)
\* self.emission_factors.items(): a dict keeps the order in which its keys were
\* inserted, which for the catalog is the order of TransportMode.
table_rows(self) ==
    LET keys == SelectSeq(TransportMode, LAMBDA m : m \in DOMAIN self)
    IN  [k \in 1 .. Len(keys) |->
            [transport_mode |-> keys[k],
             emission_factor_kg_co2_per_tonne_km |-> self[keys[k]].factor_kg_co2_per_tonne_km,
             description |-> self[keys[k]].description,
             source |-> self[keys[k]].source]]

\* The orders of the indices S of data that are non-decreasing in the factor.
RECURSIVE SortedFactorOrders(_, _)
SortedFactorOrders(data, S) ==
    IF S = {} THEN {<<>>}
    ELSE UNION {{<<i>> \o t : t \in SortedFactorOrders(data, S \ {i})} :
                i \in {j \in S : \A k \in S :
                          data[j].emission_factor_kg_co2_per_tonne_km
                              <= data[k].emission_factor_kg_co2_per_tonne_km}}

get_emission_factors_table_unsorted(self) == {[status |-> "ok", rows |-> table_rows(self)]}

\* pd.DataFrame(data).sort_values('emission_factor_kg_co2_per_tonne_km'): the
\* frames the call may return (the default sort is not stable).
get_emission_factors_table(self) ==
    LET data == table_rows(self)
    IN  {[status |-> "ok", rows |-> [k \in 1 .. Len(data) |-> data[p[k]]]] :
            p \in SortedFactorOrders(data, 1 .. Len(data))}

(***************************************************************************)
(* Exact fractions n/d of an hour or of a percent, d > 0, in lowest terms. *)
(***************************************************************************)
RECURSIVE GCD(_, _)
GCD(a, b) == IF b = 0 THEN a ELSE GCD(b, a % b)

Fraction(n, d) ==
    LET s == IF d < 0 THEN 0 - 1 ELSE 1
        g == GCD(IF n < 0 THEN 0 - n ELSE n, IF d < 0 THEN 0 - d ELSE d)
    IN  [num |-> (s * n) \div g, den |-> (s * d) \div g]

FracSub(a, b) == Fraction(a.num * b.den - b.num * a.den, a.den * b.den)
\* a / b, b not zero
FracDiv(a, b) == Fraction(a.num * b.den, a.den * b.num)
FracTimes(a, k) == Fraction(a.num * k, a.den)
FracLess(a, b) == a.num * b.den < b.num * a.den

RoundFloatTruncated(n, d, up) == n \div d

\* round() of a value that the double arithmetic may have moved off an exact
\* decimal half: there the result is the neighbour that the error picks.
RoundFloat(n, d, up) ==
    IF 2 * (n % d) = d
    THEN (IF up THEN (n \div d) + 1 ELSE n \div d)
    ELSE Round(n, d)

\* What the double arithmetic of one calculate_emissions call may do when the
\* product is an exact decimal half of 0.001 kg: co2_kg and co2_kg / 1000 are
\* two doubles, each on its own side of the half it stands for.
RoundingOutcomes == [kg_up : BOOLEAN, tonnes_up : BOOLEAN]

\* calculate_emissions on any shipment: off the exact halves it is
\* calculate_emissions above; on one, round(co2_kg, 3) and round(co2_tonnes, 6)
\* go each to the neighbour its double picks.
calculate_emissions_float(self, distance_km, weight_tonnes, transport_mode, fp) ==
    LET emissions == calculate_emissions(self, distance_km, weight_tonnes, transport_mode)
    IN  IF emissions.status # "ok" THEN emissions
        ELSE LET co2_kg == distance_km * weight_tonnes * emissions.emission_factor
                 co2_tonnes == co2_kg
             IN  [emissions EXCEPT
                     !.co2_emissions_kg = RoundFloat(co2_kg, KgGrid, fp.kg_up),
                     !.co2_emissions_tonnes = RoundFloat(co2_tonnes, KgGrid, fp.tonnes_up)]

(***************************************************************************)
(* EmissionOptimizer.find_greenest_option                                  *)
(***************************************************************************)
DefaultMaxTimePenaltyPercent == 1000

mode_speeds_slow_rail ==
    [m \in TransportModes |->
        CASE m = "road_truck" -> 80
          [] m = "road_van" -> 70
          [] m = "rail" -> 40
          [] m = "air_cargo" -> 800
          [] m = "ship_container" -> 25
          [] m = "ship_bulk" -> 20]

\* Typical speeds for different modes (km/h)
mode_speeds ==
    [m \in TransportModes |->
        CASE m = "road_truck" -> 80
          [] m = "road_van" -> 70
          [] m = "rail" -> 50
          [] m = "air_cargo" -> 800
          [] m = "ship_container" -> 25
          [] m = "ship_bulk" -> 20]

\* mode_speeds.get(mode, 50)
speed_of(mode) == IF mode \in DOMAIN mode_speeds THEN mode_speeds[mode] ELSE 50

\* One pass of the loop: the option of a mode whose calculation succeeded.
option_of(emissions, distance_km, mode) ==
    [mode |-> mode,
     co2_emissions_kg |-> emissions.co2_emissions_kg,
     \* distance_km / speed, distance_km being in tenths of a km
     travel_time_hours |-> Fraction(distance_km, 10 * speed_of(mode)),
     emission_factor |-> emissions.emission_factor]

build_options_skip(self, distance_km, weight_tonnes, available_modes) ==
    LET kept == SelectSeq(available_modes, LAMBDA m : m \in DOMAIN self)
    IN  [status |-> "ok",
         options |-> [i \in 1 .. Len(kept) |->
                        option_of(calculate_emissions(self, distance_km, weight_tonnes, kept[i]),
                                  distance_km, kept[i])]]

build_options_distinct(self, distance_km, weight_tonnes, available_modes) ==
    LET acc[i \in 0 .. Len(available_modes)] ==
            IF i = 0 THEN <<>>
            ELSE IF \E j \in 1 .. i - 1 : available_modes[j] = available_modes[i]
                 THEN acc[i - 1]
                 ELSE Append(acc[i - 1], available_modes[i])
    IN  build_options_skip(self, distance_km, weight_tonnes, acc[Len(available_modes)])

\* The loop over available_modes: the options in the order of the candidates,
\* or the ValueError of the first candidate that calculate_emissions refuses
\* (nothing catches it).
build_options(self, distance_km, weight_tonnes, available_modes) ==
    IF \E i \in 1 .. Len(available_modes) :
          calculate_emissions(self, distance_km, weight_tonnes,
                              available_modes[i]).status # "ok"
    THEN [status |-> "ValueError"]
    ELSE [status |-> "ok",
          options |-> [i \in 1 .. Len(available_modes) |->
                         option_of(calculate_emissions(self, distance_km, weight_tonnes,
                                                       available_modes[i]),
                                   distance_km, available_modes[i])]]

\* The order of the indices S by co2_emissions_kg, equal keys by index; with
\* last_first, equal keys by index downwards.
RECURSIVE KeyOrder(_, _, _)
KeyOrder(options, S, last_first) ==
    IF S = {} THEN <<>>
    ELSE LET least == {j \in S : \A k \in S :
                          options[j].co2_emissions_kg <= options[k].co2_emissions_kg}
             i == CHOOSE j \in least :
                      \A k \in least : IF last_first THEN k <= j ELSE j <= k
         IN  <<i>> \o KeyOrder(options, S \ {i}, last_first)

list_sort_ties_reversed(options) ==
    LET p == KeyOrder(options, 1 .. Len(options), TRUE)
    IN  [k \in 1 .. Len(options) |-> options[p[k]]]

list_sort_none(options) == options

\* options.sort(key=lambda x: x['co2_emissions_kg']): list.sort is stable.
list_sort(options) ==
    LET p == KeyOrder(options, 1 .. Len(options), FALSE)
    IN  [k \in 1 .. Len(options) |-> options[p[k]]]

slowest_option(options) ==
    options[CHOOSE i \in 1 .. Len(options) :
               /\ \A k \in 1 .. Len(options) :
                     ~FracLess(options[i].travel_time_hours, options[k].travel_time_hours)
               /\ \A k \in 1 .. i - 1 :
                     FracLess(options[k].travel_time_hours, options[i].travel_time_hours)]

\* min(options, key=lambda x: x['travel_time_hours']): the first of the least.
fastest_option(options) ==
    options[CHOOSE i \in 1 .. Len(options) :
               /\ \A k \in 1 .. Len(options) :
                     ~FracLess(options[k].travel_time_hours, options[i].travel_time_hours)
               /\ \A k \in 1 .. i - 1 :
                     FracLess(options[i].travel_time_hours, options[k].travel_time_hours)]

is_within_rounded(time_penalty, max_time_penalty_percent, fp) ==
    10 * RoundFloat(10 * time_penalty.num, time_penalty.den, fp.penalty_up)
        <= max_time_penalty_percent

is_within_strict(time_penalty, max_time_penalty_percent, fp) ==
    FracLess(time_penalty, Fraction(max_time_penalty_percent, 100))

\* time_penalty <= max_time_penalty_percent, on the unrounded penalty.  A
\* penalty of 0 is exact (the difference of two equal doubles); any other
\* penalty equal to the bound is compared as the doubles fall.
is_within_time_constraint(time_penalty, max_time_penalty_percent, fp) ==
    LET bound == Fraction(max_time_penalty_percent, 100)
    IN  IF time_penalty.num = 0 THEN 0 <= max_time_penalty_percent
        ELSE IF time_penalty = bound THEN fp.within_at_bound
        ELSE FracLess(time_penalty, bound)

\* What the double arithmetic of one call may do at the exact decimal halves
\* and at a penalty equal to the bound.
FloatOutcomes == [penalty_up : BOOLEAN, savings_up : BOOLEAN, within_at_bound : BOOLEAN]

recommendation(options, max_time_penalty_percent, fp) ==
    LET greenest == options[1]
        fastest == fastest_option(options)
    IN  IF fastest.travel_time_hours.num = 0
        THEN [status |-> "ZeroDivisionError"]
        ELSE
        LET time_penalty ==
                FracTimes(FracDiv(FracSub(greenest.travel_time_hours,
                                          fastest.travel_time_hours),
                                  fastest.travel_time_hours), 100)
        IN  [status |-> "ok",
             recommended_mode |-> greenest.mode,
             co2_emissions_kg |-> greenest.co2_emissions_kg,
             travel_time_hours |-> greenest.travel_time_hours,
             is_within_time_constraint |->
                 is_within_time_constraint(time_penalty, max_time_penalty_percent, fp),
             time_penalty_percent |->
                 RoundFloat(10 * time_penalty.num, time_penalty.den, fp.penalty_up),
             emission_savings_vs_fastest |->
                 RoundFloat(fastest.co2_emissions_kg - greenest.co2_emissions_kg, 10,
                            fp.savings_up),
             emission_reduction_percent |->
                 IF fastest.co2_emissions_kg > 0
                 THEN Round((fastest.co2_emissions_kg - greenest.co2_emissions_kg) * 1000,
                            fastest.co2_emissions_kg)
                 ELSE 0,
             all_options |->
                 [k \in 1 .. Len(options) |->
                     [mode |-> options[k].mode,
                      co2_emissions_kg |-> options[k].co2_emissions_kg,
                      travel_time_hours |->
                          Round(10 * options[k].travel_time_hours.num,
                                options[k].travel_time_hours.den)]]]

NoModesError == [status |-> "ok", error |-> "No available transport modes"]

find_greenest_option_unguarded(self, distance_km, weight_tonnes, available_modes, max_given, max_time_penalty_percent, fp) ==
    LET built == build_options(self, distance_km, weight_tonnes, available_modes)
    IN  IF built.status # "ok" THEN built
        ELSE IF built.options = <<>> THEN [status |-> "IndexError"]
        ELSE recommendation(list_sort(built.options),
                            IF max_given THEN max_time_penalty_percent
                            ELSE DefaultMaxTimePenaltyPercent, fp)

find_greenest_option(self, distance_km, weight_tonnes, available_modes, max_given, max_time_penalty_percent, fp) ==
    LET built == build_options(self, distance_km, weight_tonnes, available_modes)
    IN  IF built.status # "ok" THEN built
        ELSE LET options == list_sort(built.options)
             IN  IF options = <<>> THEN NoModesError
                 ELSE recommendation(options,
                                     IF max_given THEN max_time_penalty_percent
                                     ELSE DefaultMaxTimePenaltyPercent, fp)

(***************************************************************************)
(* The state machine: a caller makes one call at a time on the calculator  *)
(* built by __init__ (the optimizer's own calculator, for                  *)
(* find_greenest_option), and takes its result before the next call.       *)
(***************************************************************************)
NoCall == [op |-> "none"]
NoResult == [status |-> "none"]

\* The explicit modes arguments: the lists of at most MaxModes modes.
ModeLists == UNION {[1 .. n -> Modes] : n \in 0 .. MaxModes}

\* Whole kilograms, and the 602.0 kg of the documented scenario.
TaxEmissions == {1000 * k : k \in (-1 .. MaxTaxKg) \cup {602}}
TaxRates == 0 .. MaxRate

\* The available_modes arguments: the lists of at most MaxCandidates modes,
\* and the candidates of the documented scenario.
CandidateLists ==
    UNION {[1 .. n -> Modes] : n \in 0 .. MaxCandidates}
        \cup {<<"road_truck", "rail", "ship_container">>}

\* Explicit max_time_penalty_percent arguments: 0, 60.00 and 1042.86 percent.
MaxTimePenalties == {0, 6000, 104286}

\* Shipments of calculate_emissions whose product is an exact decimal half of
\* 0.001 kg for some modes: 0.1 km with 2.5 t (0.0155 kg by road truck) and
\* 0.5 km with 0.5 t.
HalfShipments == {<<1, 25>>, <<5, 5>>}

\* The concurrent callers, and a caller that is in no call: pc is the line it
\* is at, i the place in the list of modes of the loop, rows the list the loop
\* builds, factor and emissions the local variables of these names.
Threads == {"a", "b"}
NoFactor == [mode |-> "none"]
IdleThread ==
    [pc |-> "idle", call |-> NoCall, i |-> 0, rows |-> <<>>, factor |-> NoFactor,
     emissions |-> NoResult, result |-> NoResult]

\* One EmissionCalculator has been constructed: its __init__ has loaded the
\* catalog.  One caller at a time uses it.
Init ==
    /\ emission_factors = load_emission_factors
    /\ call = NoCall
    /\ result = NoResult
    /\ loads = 1
    /\ threads = [t \in Threads |-> IdleThread]

CalculateEmissions ==
    /\ call = NoCall
    /\ \E shipment \in (Distances \X Weights) \cup HalfShipments, m \in Modes,
          fp \in RoundingOutcomes :
        /\ call' = [op |-> "calculate_emissions", distance_km |-> shipment[1],
                    weight_tonnes |-> shipment[2], transport_mode |-> m]
        /\ result' = calculate_emissions_float(emission_factors, shipment[1],
                                               shipment[2], m, fp)
    /\ UNCHANGED <<emission_factors, loads, threads>>

CompareTransportModes ==
    /\ call = NoCall
    /\ \E d \in Distances, w \in Weights :
        \/ /\ call' = [op |-> "compare_transport_modes", distance_km |-> d,
                       weight_tonnes |-> w, modes_is_none |-> TRUE, modes |-> <<>>]
           /\ result' \in compare_transport_modes(emission_factors, d, w, TRUE, <<>>)
        \/ \E modes \in ModeLists :
           /\ call' = [op |-> "compare_transport_modes", distance_km |-> d,
                       weight_tonnes |-> w, modes_is_none |-> FALSE, modes |-> modes]
           /\ result' \in compare_transport_modes(emission_factors, d, w, FALSE, modes)
    /\ UNCHANGED <<emission_factors, loads, threads>>

CalculateCarbonTaxCost ==
    /\ call = NoCall
    /\ \E x \in TaxEmissions :
        \/ /\ call' = [op |-> "calculate_carbon_tax_cost", co2_emissions_kg |-> x,
                       rate_given |-> FALSE, carbon_tax_rate_per_tonne |-> 0]
           /\ result' = calculate_carbon_tax_cost(x, FALSE, 0)
        \/ \E r \in TaxRates :
           /\ call' = [op |-> "calculate_carbon_tax_cost", co2_emissions_kg |-> x,
                       rate_given |-> TRUE, carbon_tax_rate_per_tonne |-> r]
           /\ result' = calculate_carbon_tax_cost(x, TRUE, r)
    /\ UNCHANGED <<emission_factors, loads, threads>>

\* The table built by emptying the catalog (popitem) instead of reading it.
GetEmissionFactorsTableDraining ==
    /\ call = NoCall
    /\ call' = [op |-> "get_emission_factors_table"]
    /\ result' \in get_emission_factors_table(emission_factors)
    /\ emission_factors' = [m \in {} |-> 0]
    /\ UNCHANGED <<loads, threads>>

GetEmissionFactorsTable ==
    /\ call = NoCall
    /\ call' = [op |-> "get_emission_factors_table"]
    /\ result' \in get_emission_factors_table(emission_factors)
    /\ UNCHANGED <<emission_factors, loads, threads>>

FindGreenestOption ==
    /\ call = NoCall
    /\ \E d \in Distances, w \in Weights, modes \in CandidateLists, fp \in FloatOutcomes :
        \/ /\ call' = [op |-> "find_greenest_option", distance_km |-> d,
                       weight_tonnes |-> w, available_modes |-> modes,
                       max_given |-> FALSE, max_time_penalty_percent |-> 0]
           /\ result' = find_greenest_option(emission_factors, d, w, modes, FALSE, 0, fp)
        \/ \E max \in MaxTimePenalties :
           /\ call' = [op |-> "find_greenest_option", distance_km |-> d,
                       weight_tonnes |-> w, available_modes |-> modes,
                       max_given |-> TRUE, max_time_penalty_percent |-> max]
           /\ result' = find_greenest_option(emission_factors, d, w, modes, TRUE, max, fp)
    /\ UNCHANGED <<emission_factors, loads, threads>>

\* The caller has the result (or the exception) and is ready for its next call.
Return ==
    /\ call # NoCall
    /\ call' = NoCall
    /\ result' = NoResult
    /\ UNCHANGED <<emission_factors, loads, threads>>

\* The results a call c may return on the catalog self, when made alone.
Outcomes(self, c) ==
    CASE c.op = "calculate_emissions" ->
            {calculate_emissions_float(self, c.distance_km, c.weight_tonnes,
                                       c.transport_mode, fp) : fp \in RoundingOutcomes}
      [] c.op = "compare_transport_modes" ->
            compare_transport_modes(self, c.distance_km, c.weight_tonnes,
                                    c.modes_is_none, c.modes)
      [] c.op = "calculate_carbon_tax_cost" ->
            {calculate_carbon_tax_cost(c.co2_emissions_kg, c.rate_given,
                                       c.carbon_tax_rate_per_tonne)}
      [] c.op = "get_emission_factors_table" -> get_emission_factors_table(self)
      [] c.op = "find_greenest_option" ->
            {find_greenest_option(self, c.distance_km, c.weight_tonnes, c.available_modes,
                                  c.max_given, c.max_time_penalty_percent, fp) :
                fp \in FloatOutcomes}

\* Whether r is in Outcomes(self, c).  For compare_transport_modes, whose
\* outcomes are all the orders of the tied rows, it is told from r itself: r is
\* an outcome when its rows, less the columns added after the sort, are the
\* rows of the loop in a sorted order, and carry the columns of that order.
MayReturn(self, c, r) ==
    IF c.op = "compare_transport_modes"
    THEN LET results == compare_rows(self, c.distance_km, c.weight_tonnes,
                                     IF c.modes_is_none THEN TransportMode ELSE c.modes)
             df == [k \in 1 .. Len(r.rows) |->
                       [transport_mode |-> r.rows[k].transport_mode,
                        co2_emissions_kg |-> r.rows[k].co2_emissions_kg,
                        emission_factor |-> r.rows[k].emission_factor,
                        description |-> r.rows[k].description]]
         IN  /\ r.status = "ok"
             /\ Len(df) = Len(results)
             /\ \A i \in 1 .. Len(df) :
                   Cardinality({k \in 1 .. Len(df) : df[k] = df[i]})
                      = Cardinality({k \in 1 .. Len(results) : results[k] = df[i]})
             /\ \A k \in 1 .. Len(df) - 1 :
                   df[k].co2_emissions_kg <= df[k + 1].co2_emissions_kg
             /\ df # <<>> => r.rows = WithRanks(df)
    ELSE r \in Outcomes(self, c)

\* The caller makes its last call again, with the same arguments.  The code
\* draws no random number and reads no clock, and the arithmetic of doubles and
\* the sort of a frame are functions of their operands: what the call does at
\* an exact half or on tied rows, it does again, if the catalog it reads is
\* the same.
Repeat ==
    /\ call # NoCall
    /\ call.op # "again"
    /\ call' = [op |-> "again", first |-> call]
    /\ IF MayReturn(emission_factors, call, result)
       THEN result' = result
       ELSE result' \in Outcomes(emission_factors, call)
    /\ UNCHANGED <<emission_factors, loads, threads>>

Next ==
    \/ CalculateEmissions
    \/ CompareTransportModes
    \/ CalculateCarbonTaxCost
    \/ GetEmissionFactorsTable
    \/ FindGreenestOption
    \/ Return

Spec == Init /\ [][Next]_vars

\* The same caller, who may also repeat a call before it makes another.
NextRepeat ==
    \/ Next
    \/ Repeat

SpecRepeat == Init /\ [][NextRepeat]_vars


(***************************************************************************)
(* A process from its start: it constructs EmissionCalculator and          *)
(* EmissionOptimizer objects and calculates with them.  Every object holds *)
(* a catalog of its own, the value that _load_emission_factors returned to *)
(* its constructor; emission_factors is the catalog of the object          *)
(* constructed last, and any of them is equal to it.                       *)
(***************************************************************************)
\* objects constructed in one process, at most
MaxObjects == 3

\* No object yet: there is no catalog.
NoObject == [m \in {} |-> 0]

InitProcess ==
    /\ emission_factors = NoObject
    /\ call = NoCall
    /\ result = NoResult
    /\ loads = 0
    /\ threads = [t \in Threads |-> IdleThread]

\* EmissionCalculator(): __init__ runs _load_emission_factors.
NewEmissionCalculator ==
    /\ call = NoCall
    /\ loads < MaxObjects
    /\ call' = [op |-> "EmissionCalculator"]
    /\ emission_factors' = load_emission_factors
    /\ loads' = loads + 1
    /\ result' = [status |-> "ok"]
    /\ UNCHANGED threads

\* EmissionOptimizer(): __init__ constructs an EmissionCalculator of its own.
NewEmissionOptimizer ==
    /\ call = NoCall
    /\ loads < MaxObjects
    /\ call' = [op |-> "EmissionOptimizer"]
    /\ emission_factors' = load_emission_factors
    /\ loads' = loads + 1
    /\ result' = [status |-> "ok"]
    /\ UNCHANGED threads

\* A calculation needs an object to be called on.
UseCalculator ==
    /\ loads > 0
    /\ CalculateEmissions

NextProcess ==
    \/ NewEmissionCalculator
    \/ NewEmissionOptimizer
    \/ UseCalculator
    \/ Return

SpecProcess == InitProcess /\ [][NextProcess]_vars

(***************************************************************************)
(* Concurrent callers of one calculator, without locks.  A caller's call   *)
(* runs line by line; a step is a line that reads the shared catalog, with *)
(* the work on the caller's own variables that follows it.  The steps of   *)
(* the callers interleave in any order.                                    *)
(***************************************************************************)
\* longest list of modes passed by a concurrent caller
MaxThreadModes == 2

\* The concurrent callers ask for the shipment of the documented scenarios.
ConcurrentShipments == {<<5000, 20>>}
ConcurrentModeLists ==
    UNION {[1 .. n -> {"rail", "ship_container", "bicycle"}] : n \in 0 .. MaxThreadModes}

ConcurrentCalls ==
    {[op |-> "calculate_emissions", distance_km |-> s[1], weight_tonnes |-> s[2],
      transport_mode |-> m] :
        s \in ConcurrentShipments, m \in {"rail", "ship_container", "bicycle"}}
    \cup {[op |-> "compare_transport_modes", distance_km |-> s[1], weight_tonnes |-> s[2],
           modes_is_none |-> FALSE, modes |-> l] :
             s \in ConcurrentShipments, l \in ConcurrentModeLists}
    \cup {[op |-> "calculate_carbon_tax_cost", co2_emissions_kg |-> 602000,
           rate_given |-> FALSE, carbon_tax_rate_per_tonne |-> 0]}
    \cup {[op |-> "find_greenest_option", distance_km |-> s[1], weight_tonnes |-> s[2],
           available_modes |-> l, max_given |-> FALSE, max_time_penalty_percent |-> 0] :
             s \in ConcurrentShipments, l \in ConcurrentModeLists}

\* The modes a call hands to calculate_emissions, one after the other.
ModesOf(c) ==
    CASE c.op = "calculate_emissions" -> <<c.transport_mode>>
      [] c.op = "compare_transport_modes" -> c.modes
      [] c.op = "find_greenest_option" -> c.available_modes
      [] OTHER -> <<>>

\* The mode that thread t is calculating.
ModeOf(t) == ModesOf(threads[t].call)[threads[t].i]

\* factor = ... kept in a place that all the callers share.
store_factor_on_self(thrds, t, factor) ==
    [u \in DOMAIN thrds |->
        [thrds[u] EXCEPT !.factor = factor,
                         !.pc = IF u = t THEN "line113" ELSE @]]

\* factor = self.emission_factors[transport_mode]: factor is a local variable.
store_factor(thrds, t, factor) ==
    [thrds EXCEPT ![t].factor = factor, ![t].pc = "line113"]

\* The end of compare_transport_modes, from the rows of its loop.
compare_frames(results) ==
    IF results # <<>>
    THEN {[status |-> "ok", rows |-> WithRanks(df)] : df \in sort_values(results)}
    ELSE {[status |-> "ok", rows |-> <<>>]}

\* The end of find_greenest_option, from the options of its loop.
greenest_of(built_options, max_time_penalty_percent, fp) ==
    LET options == list_sort(built_options)
    IN  IF options = <<>> THEN NoModesError
        ELSE recommendation(options, max_time_penalty_percent, fp)

\* A caller enters a method.
Start(t) ==
    /\ threads[t].pc = "idle"
    /\ \E c \in ConcurrentCalls :
          threads' = [threads EXCEPT ![t] =
                        [IdleThread EXCEPT
                            !.call = c,
                            !.pc = IF c.op = "calculate_carbon_tax_cost"
                                   THEN "line185" ELSE "for"]]
    /\ UNCHANGED <<emission_factors, call, result, loads>>

\* for mode in modes: the next mode (the one mode, for calculate_emissions).
Iterate(t) ==
    /\ threads[t].pc = "for"
    /\ threads[t].i < Len(ModesOf(threads[t].call))
    /\ threads' = [threads EXCEPT ![t].i = @ + 1, ![t].pc = "line102"]
    /\ UNCHANGED <<emission_factors, call, result, loads>>

\* if transport_mode not in self.emission_factors: raise ValueError, which
\* compare_transport_modes catches (continue) and find_greenest_option does not.
Line102(t) ==
    /\ threads[t].pc = "line102"
    /\ threads' =
          IF ModeOf(t) \in DOMAIN emission_factors
          THEN [threads EXCEPT ![t].pc = "line110"]
          ELSE IF threads[t].call.op = "compare_transport_modes"
               THEN [threads EXCEPT ![t].pc = "for"]
               ELSE [threads EXCEPT ![t].pc = "done",
                                    ![t].result = [status |-> "ValueError"]]
    /\ UNCHANGED <<emission_factors, call, result, loads>>

Line110(t) ==
    /\ threads[t].pc = "line110"
    /\ threads' = store_factor(threads, t, emission_factors[ModeOf(t)])
    /\ UNCHANGED <<emission_factors, call, result, loads>>

\* Lines 113 to 124 work on the local factor; the caller of calculate_emissions
\* then has the record: as a result, as the emissions of a row, or in an option.
Line113(t) ==
    /\ threads[t].pc = "line113"
    /\ LET c == threads[t].call
           emissions == calculate_emissions([m \in {ModeOf(t)} |-> threads[t].factor],
                                            c.distance_km, c.weight_tonnes, ModeOf(t))
       IN  threads' =
              CASE c.op = "calculate_emissions" ->
                      [threads EXCEPT ![t].pc = "done", ![t].result = emissions]
                [] c.op = "compare_transport_modes" ->
                      [threads EXCEPT ![t].pc = "line154", ![t].emissions = emissions]
                [] c.op = "find_greenest_option" ->
                      [threads EXCEPT ![t].pc = "for",
                                      ![t].rows = Append(@, option_of(emissions,
                                                             c.distance_km, ModeOf(t)))]
    /\ UNCHANGED <<emission_factors, call, result, loads>>

\* 'description': self.emission_factors[mode].description, and the append.
Line154(t) ==
    /\ threads[t].pc = "line154"
    /\ threads' =
          [threads EXCEPT
              ![t].pc = "for",
              ![t].rows =
                  Append(@, [transport_mode |-> ModeOf(t),
                             co2_emissions_kg |-> threads[t].emissions.co2_emissions_kg,
                             emission_factor |-> threads[t].emissions.emission_factor,
                             description |-> emission_factors[ModeOf(t)].description])]
    /\ UNCHANGED <<emission_factors, call, result, loads>>

\* calculate_carbon_tax_cost reads its arguments only.
Line185(t) ==
    /\ threads[t].pc = "line185"
    /\ LET c == threads[t].call
       IN  threads' =
              [threads EXCEPT
                  ![t].pc = "done",
                  ![t].result = calculate_carbon_tax_cost(c.co2_emissions_kg, c.rate_given,
                                                          c.carbon_tax_rate_per_tonne)]
    /\ UNCHANGED <<emission_factors, call, result, loads>>

\* After the loop: the frame is sorted and ranked, or the options are sorted
\* and the recommendation is made.
Finish(t) ==
    /\ threads[t].pc = "for"
    /\ threads[t].i = Len(ModesOf(threads[t].call))
    /\ LET c == threads[t].call
       IN  \E r \in IF c.op = "compare_transport_modes"
                    THEN compare_frames(threads[t].rows)
                    ELSE {greenest_of(threads[t].rows,
                                      IF c.max_given THEN c.max_time_penalty_percent
                                      ELSE DefaultMaxTimePenaltyPercent, fp) :
                             fp \in FloatOutcomes} :
              threads' = [threads EXCEPT ![t].pc = "done", ![t].result = r]
    /\ UNCHANGED <<emission_factors, call, result, loads>>

\* The caller has its result or its exception.
ThreadReturn(t) ==
    /\ threads[t].pc = "done"
    /\ threads' = [threads EXCEPT ![t] = IdleThread]
    /\ UNCHANGED <<emission_factors, call, result, loads>>

NextConcurrent ==
    \E t \in Threads :
        \/ Start(t)
        \/ Iterate(t)
        \/ Line102(t)
        \/ Line110(t)
        \/ Line113(t)
        \/ Line154(t)
        \/ Line185(t)
        \/ Finish(t)
        \/ ThreadReturn(t)

SpecConcurrent == Init /\ [][NextConcurrent]_vars

(***************************************************************************)
(* Properties.                                                             *)
(***************************************************************************)
Abs(x) == IF x < 0 THEN 0 - x ELSE x

\* The modes a compare_transport_modes call asks for.
Requested == IF call.modes_is_none THEN TransportMode ELSE call.modes

\* The place of a member in list(TransportMode).
CanonicalIndex(m) == CHOOSE i \in 1 .. Len(TransportMode) : TransportMode[i] = m

Occurrences(seq, v) == Cardinality({i \in 1 .. Len(seq) : seq[i] = v})

RowModes == [k \in 1 .. Len(result.rows) |-> result.rows[k].transport_mode]

(* C1: for positive distance and weight and a catalog mode, calculate_emissions
   returns as co2_emissions_kg the multiple of 0.001 kg nearest to
   distance x weight x catalog factor: 22.0 kg for 500 km, 2 t by rail and
   602.0 kg by air cargo. *)
C1_EmissionsAreRoundedProduct ==
    (/\ call.op = "calculate_emissions"
     /\ call.distance_km > 0
     /\ call.weight_tonnes > 0
     /\ call.transport_mode \in TransportModes)
    => /\ result.status = "ok"
       /\ LET exact == call.distance_km * call.weight_tonnes
                         * emission_factors[call.transport_mode].factor_kg_co2_per_tonne_km
          IN  2 * Abs(result.co2_emissions_kg * 100 - exact) <= 100
       /\ (call.distance_km = 5000 /\ call.weight_tonnes = 20)
            => /\ call.transport_mode = "rail" => result.co2_emissions_kg = 22000
               /\ call.transport_mode = "air_cargo" => result.co2_emissions_kg = 602000

C1_Witness ==
    /\ call.op = "calculate_emissions"
    /\ call.distance_km = 5000
    /\ call.weight_tonnes = 20
    /\ call.transport_mode = "rail"
    /\ result.status = "ok"
    /\ result.co2_emissions_kg = 22000

(* C2: calculate_emissions called with a distance or a weight that is not
   positive fails: it returns no result record. *)
C2_NonPositiveInputRejected ==
    (/\ call.op = "calculate_emissions"
     /\ (call.distance_km <= 0 \/ call.weight_tonnes <= 0))
    => result.status # "ok"

(* C3: calculate_emissions called with a mode that is no key of the catalog
   raises ValueError and returns no result record (no default factor). *)
C3_UnknownModeRaisesValueError ==
    (/\ call.op = "calculate_emissions"
     /\ call.transport_mode \notin DOMAIN emission_factors)
    => result = [status |-> "ValueError"]

C3_Witness ==
    /\ call.op = "calculate_emissions"
    /\ call.transport_mode = "bicycle"
    /\ call.distance_km > 0
    /\ call.weight_tonnes > 0
    /\ result.status = "ValueError"

(* C4: the rows of compare_transport_modes are in non-decreasing order of
   co2_emissions_kg, their emission_rank is 1, 2, ..., N in row order, and N is
   the number of requested modes whose calculation succeeded. *)
C4_RowsSortedAndRanked ==
    call.op = "compare_transport_modes"
    => /\ result.status = "ok"
       /\ \A k \in 1 .. Len(result.rows) : result.rows[k].emission_rank = k
       /\ \A k \in 1 .. Len(result.rows) - 1 :
              result.rows[k].co2_emissions_kg <= result.rows[k + 1].co2_emissions_kg
       /\ Len(result.rows) =
              Cardinality({i \in 1 .. Len(Requested) :
                  calculate_emissions(emission_factors, call.distance_km,
                                      call.weight_tonnes, Requested[i]).status = "ok"})

C4_Witness ==
    /\ call.op = "compare_transport_modes"
    /\ ~call.modes_is_none
    /\ call.modes = <<"air_cargo", "road_truck", "rail">>
    /\ call.distance_km > 0
    /\ call.weight_tonnes > 0
    /\ RowModes = <<"rail", "road_truck", "air_cargo">>
    /\ result.rows[1].co2_emissions_kg < result.rows[2].co2_emissions_kg
    /\ result.rows[3].emission_rank = 3

(* C5: compare_transport_modes does not fail when a requested mode is absent
   from the catalog: it returns one row for each request of a catalog mode and
   no row for an absent mode. *)
C5_AbsentModesSkipped ==
    call.op = "compare_transport_modes"
    => /\ result.status = "ok"
       /\ \A m \in TransportModes : Occurrences(RowModes, m) = Occurrences(Requested, m)
       /\ \A k \in 1 .. Len(result.rows) : result.rows[k].transport_mode \in TransportModes

C5_Witness ==
    /\ call.op = "compare_transport_modes"
    /\ ~call.modes_is_none
    /\ call.modes = <<"bicycle", "rail", "road_truck">>
    /\ result.status = "ok"
    /\ Len(result.rows) = 2

(* C6: rows of compare_transport_modes with equal co2_emissions_kg are in the
   relative order of list(TransportMode), whatever the order of the modes
   argument (here for positive distance and weight). *)
C6_TiesKeepCanonicalOrder ==
    (/\ call.op = "compare_transport_modes"
     /\ call.distance_km > 0
     /\ call.weight_tonnes > 0
     /\ result.status = "ok")
    => \A i, j \in 1 .. Len(result.rows) :
          (i < j /\ result.rows[i].co2_emissions_kg = result.rows[j].co2_emissions_kg)
          => CanonicalIndex(result.rows[i].transport_mode)
                <= CanonicalIndex(result.rows[j].transport_mode)

(* C7: in a non-empty result of compare_transport_modes every row's
   emission_difference_vs_best is its co2_emissions_kg minus the least
   co2_emissions_kg of the result: 0 for the first row, never negative. *)
C7_DifferenceVsBest ==
    (/\ call.op = "compare_transport_modes"
     /\ result.status = "ok"
     /\ result.rows # <<>>)
    => /\ \E b \in 1 .. Len(result.rows) :
            /\ \A k \in 1 .. Len(result.rows) :
                  result.rows[b].co2_emissions_kg <= result.rows[k].co2_emissions_kg
            /\ \A k \in 1 .. Len(result.rows) :
                  result.rows[k].emission_difference_vs_best =
                      result.rows[k].co2_emissions_kg - result.rows[b].co2_emissions_kg
       /\ result.rows[1].emission_difference_vs_best = 0
       /\ \A k \in 1 .. Len(result.rows) : result.rows[k].emission_difference_vs_best >= 0

C7_Witness ==
    /\ call.op = "compare_transport_modes"
    /\ result.status = "ok"
    /\ Len(result.rows) >= 2
    /\ result.rows[1].emission_difference_vs_best = 0
    /\ result.rows[2].emission_difference_vs_best > 0

(* C8: for positive distance and weight every row's
   emission_percentage_vs_best is a number, (co2_emissions_kg / least
   co2_emissions_kg - 1) x 100 rounded to 1 decimal, and the least
   co2_emissions_kg, the divisor, is not 0. *)
C8_PercentageVsBestDefined ==
    (/\ call.op = "compare_transport_modes"
     /\ call.distance_km > 0
     /\ call.weight_tonnes > 0
     /\ result.status = "ok")
    => \A k \in 1 .. Len(result.rows) :
          /\ result.rows[1].co2_emissions_kg # 0
          /\ result.rows[k].emission_percentage_vs_best.kind = "finite"
          /\ 2 * Abs(result.rows[k].emission_percentage_vs_best.value
                        * result.rows[1].co2_emissions_kg
                     - 1000 * (result.rows[k].co2_emissions_kg
                                 - result.rows[1].co2_emissions_kg))
                <= result.rows[1].co2_emissions_kg

(* C9: compare_transport_modes returns an empty sequence, and raises nothing,
   when no requested mode succeeds: an empty modes list, or only modes absent
   from the catalog. *)
C9_NoSuccessGivesEmpty ==
    (/\ call.op = "compare_transport_modes"
     /\ \A i \in 1 .. Len(Requested) : Requested[i] \notin DOMAIN emission_factors)
    => result = [status |-> "ok", rows |-> <<>>]

C9_Witness ==
    /\ call.op = "compare_transport_modes"
    /\ ~call.modes_is_none
    /\ call.modes = <<"bicycle", "bicycle">>
    /\ result.status = "ok"
    /\ result.rows = <<>>

(* C10: calculate_carbon_tax_cost returns as carbon_tax_cost_usd the number of
   cents nearest to (x / 1000) x r, with r = 50 dollars per tonne when no rate
   is given: 0 for x = 0, and 30.10 for 602.0 kg at the default rate. *)
C10_CarbonTaxCost ==
    call.op = "calculate_carbon_tax_cost"
    => LET r == IF call.rate_given THEN call.carbon_tax_rate_per_tonne ELSE 50
       IN  /\ result.status = "ok"
           /\ result.carbon_tax_rate_per_tonne = r
           /\ 2 * Abs(result.carbon_tax_cost_usd * 10000 - call.co2_emissions_kg * r)
                 <= 10000
           /\ call.co2_emissions_kg = 0 => result.carbon_tax_cost_usd = 0
           /\ (call.co2_emissions_kg = 602000 /\ ~call.rate_given)
                 => result.carbon_tax_cost_usd = 3010

C10_Witness ==
    /\ call.op = "calculate_carbon_tax_cost"
    /\ call.co2_emissions_kg = 602000
    /\ ~call.rate_given
    /\ result.carbon_tax_cost_usd = 3010

(***************************************************************************)
(* Properties of find_greenest_option.                                     *)
(***************************************************************************)
Candidates == call.available_modes

\* The bound of the call, in hundredths of a percent (10.0 when none is given).
MaxPenalty == IF call.max_given THEN call.max_time_penalty_percent ELSE 1000

Recommends == call.op = "find_greenest_option" /\ "recommended_mode" \in DOMAIN result

PositiveShipment == call.distance_km > 0 /\ call.weight_tonnes > 0

CandidateCo2(i) ==
    calculate_emissions(emission_factors, call.distance_km, call.weight_tonnes,
                        Candidates[i]).co2_emissions_kg

\* The speeds as documented, km/h.
DocumentedSpeed(m) ==
    CASE m = "road_truck" -> 80
      [] m = "road_van" -> 70
      [] m = "rail" -> 50
      [] m = "air_cargo" -> 800
      [] m = "ship_container" -> 25
      [] m = "ship_bulk" -> 20

CandidateTime(i) == Fraction(call.distance_km, 10 * DocumentedSpeed(Candidates[i]))

\* The candidates of the least travel time.
FastestCandidates ==
    {i \in 1 .. Len(Candidates) :
        \A k \in 1 .. Len(Candidates) : ~FracLess(CandidateTime(k), CandidateTime(i))}

FastestTime == CandidateTime(CHOOSE i \in FastestCandidates : TRUE)
FastestCo2 == CandidateCo2(CHOOSE i \in FastestCandidates : TRUE)

\* (greenest time - fastest time) / fastest time x 100, exact, in percent.
ExactPenalty ==
    FracTimes(FracDiv(FracSub(result.travel_time_hours, FastestTime), FastestTime), 100)

(* C11: find_greenest_option recommends the candidate of the least
   co2_emissions_kg and, among candidates of equal co2_emissions_kg, the first
   of the candidate list; [road_truck, rail, ship_container] at 500 km, 2 t
   gives ship_container. *)
C11_GreenestIsFirstMinimum ==
    Recommends
    => /\ \E i \in 1 .. Len(Candidates) :
            /\ result.recommended_mode = Candidates[i]
            /\ result.co2_emissions_kg = CandidateCo2(i)
            /\ \A k \in 1 .. Len(Candidates) : CandidateCo2(i) <= CandidateCo2(k)
            /\ \A k \in 1 .. i - 1 : CandidateCo2(i) < CandidateCo2(k)
       /\ (/\ Candidates = <<"road_truck", "rail", "ship_container">>
           /\ call.distance_km = 5000
           /\ call.weight_tonnes = 20) => result.recommended_mode = "ship_container"

C11_Witness ==
    /\ Recommends
    /\ PositiveShipment
    /\ Candidates = <<"ship_container", "rail">>
    /\ CandidateCo2(1) = CandidateCo2(2)
    /\ result.recommended_mode = "ship_container"

(* C12: whenever find_greenest_option returns a recommendation (here for a
   positive distance and weight), the travel time of the recommended mode
   exceeds that of every candidate by at most max_time_penalty_percent
   percent. *)
C12_RecommendedWithinBudget ==
    (Recommends /\ PositiveShipment)
    => \A i \in 1 .. Len(Candidates) :
          ~FracLess(Fraction(CandidateTime(i).num * (10000 + MaxPenalty),
                             CandidateTime(i).den * 10000),
                    result.travel_time_hours)

(* C13 as claimed: is_within_time_constraint is true exactly when the reported
   time_penalty_percent, rounded to 1 decimal, is at most the bound (here off
   the calls whose exact penalty equals the bound, which the double arithmetic
   decides). *)
C13_WithinIffReportedPenalty ==
    (Recommends /\ ExactPenalty # Fraction(MaxPenalty, 100))
    => (result.is_within_time_constraint <=> 10 * result.time_penalty_percent <= MaxPenalty)

(* C13 as amended: is_within_time_constraint is decided on the unrounded
   penalty: true when the penalty is below the bound, false when it is above,
   and when the greenest is as fast as the fastest (penalty 0), true exactly
   when the bound is not negative; the reported time_penalty_percent is that
   penalty at its nearest tenth. *)
C13_WithinOnUnroundedPenalty ==
    Recommends
    => /\ FracLess(ExactPenalty, Fraction(MaxPenalty, 100)) => result.is_within_time_constraint
       /\ FracLess(Fraction(MaxPenalty, 100), ExactPenalty) => ~result.is_within_time_constraint
       /\ ExactPenalty.num = 0 => (result.is_within_time_constraint <=> 0 <= MaxPenalty)
       /\ 2 * Abs(result.time_penalty_percent * ExactPenalty.den - 10 * ExactPenalty.num)
             <= ExactPenalty.den

C13_Witness ==
    /\ Recommends
    /\ PositiveShipment
    /\ Candidates = <<"road_van", "air_cargo">>
    /\ call.max_given
    /\ call.max_time_penalty_percent = 104286
    /\ result.time_penalty_percent = 10429
    /\ result.is_within_time_constraint

\* The candidate lists of catalog modes, not empty.
CatalogCandidateLists ==
    {modes \in CandidateLists :
        modes # <<>> /\ \A i \in 1 .. Len(modes) : modes[i] \in TransportModes}

(* C14 as claimed: there are a non-empty list of catalog modes and a positive
   distance and weight for which find_greenest_option reports a
   time_penalty_percent below 0. *)
C14_NegativePenaltyExists ==
    \E d \in {x \in Distances : x > 0}, w \in {x \in Weights : x > 0},
       modes \in CatalogCandidateLists, fp \in FloatOutcomes :
        find_greenest_option(emission_factors, d, w, modes, FALSE, 0, fp)
            .time_penalty_percent < 0

(* C14 as amended: for a non-empty list of catalog modes and a positive
   distance and weight the reported time_penalty_percent is never negative: it
   is 0 when the greenest mode is as fast as the fastest, and above 0
   otherwise. *)
C14_PenaltyNeverNegative ==
    (Recommends /\ PositiveShipment)
    => /\ result.time_penalty_percent >= 0
       /\ result.time_penalty_percent = 0 <=> result.travel_time_hours = FastestTime

C14_Witness ==
    /\ Recommends
    /\ PositiveShipment
    /\ Candidates = <<"road_van", "road_truck">>
    /\ result.recommended_mode = "road_truck"
    /\ result.time_penalty_percent = 0

(* C15: in every recommendation emission_reduction_percent is
   (1 - greenest co2_emissions_kg / fastest co2_emissions_kg) x 100 at its
   nearest tenth, and 0 when the fastest candidate's co2_emissions_kg is 0. *)
C15_ReductionPercent ==
    Recommends
    => /\ FastestCo2 = 0 => result.emission_reduction_percent = 0
       /\ FastestCo2 # 0 =>
            2 * Abs(result.emission_reduction_percent * FastestCo2
                    - 1000 * (FastestCo2 - result.co2_emissions_kg))
                <= Abs(FastestCo2)

(* C16: find_greenest_option called with an empty candidate list returns, for
   every distance and weight, a record with an error field and no
   recommended_mode, and raises nothing. *)
C16_EmptyCandidatesGiveErrorRecord ==
    (call.op = "find_greenest_option" /\ Candidates = <<>>)
    => /\ result.status = "ok"
       /\ "error" \in DOMAIN result
       /\ "recommended_mode" \notin DOMAIN result

C16_Witness ==
    /\ call.op = "find_greenest_option"
    /\ Candidates = <<>>
    /\ call.distance_km = 0
    /\ result = NoModesError

(* C17: with the single candidate [m], m a catalog mode, a positive distance
   and weight and the default or any non-negative bound, find_greenest_option
   recommends m with time_penalty_percent 0, is_within_time_constraint true and
   emission_savings_vs_fastest 0. *)
C17_SingleCandidate ==
    (/\ call.op = "find_greenest_option"
     /\ PositiveShipment
     /\ Len(Candidates) = 1
     /\ Candidates[1] \in TransportModes
     /\ MaxPenalty >= 0)
    => /\ result.status = "ok"
       /\ result.recommended_mode = Candidates[1]
       /\ result.time_penalty_percent = 0
       /\ result.is_within_time_constraint
       /\ result.emission_savings_vs_fastest = 0

C17_Witness ==
    /\ call.op = "find_greenest_option"
    /\ PositiveShipment
    /\ Candidates = <<"air_cargo">>
    /\ call.max_given
    /\ call.max_time_penalty_percent = 0
    /\ result.status = "ok"
    /\ result.recommended_mode = "air_cargo"
    /\ result.is_within_time_constraint

(* C18 as claimed: travel times are distance_km / speed with the fixed speeds,
   and a candidate that is not in the speed table gets speed 50 and appears in
   the result with travel time distance_km / 50 (here for a positive distance
   and weight). *)
C18_UnknownModeGetsDefaultSpeed ==
    (call.op = "find_greenest_option" /\ PositiveShipment)
    => \A i \in 1 .. Len(Candidates) :
          Candidates[i] \notin TransportModes
          => /\ result.status = "ok"
             /\ "all_options" \in DOMAIN result
             /\ \E k \in 1 .. Len(result.all_options) :
                   /\ result.all_options[k].mode = Candidates[i]
                   /\ result.all_options[k].travel_time_hours
                         = Round(10 * call.distance_km, 10 * 50)

(* C18 as amended: travel times are distance_km / speed with the fixed speeds
   (road_truck 80, road_van 70, rail 50, air_cargo 800, ship_container 25,
   ship_bulk 20), given in all_options at the nearest tenth of an hour; a
   candidate that is not in the speed table never appears in a result: the
   call raises the ValueError of calculate_emissions and the default speed 50
   is not used. *)
C18_TravelTimesFromSpeedTable ==
    call.op = "find_greenest_option"
    => /\ Recommends =>
            /\ result.travel_time_hours
                  = Fraction(call.distance_km, 10 * DocumentedSpeed(result.recommended_mode))
            /\ Len(result.all_options) = Len(Candidates)
            /\ \A k \in 1 .. Len(result.all_options) :
                  2 * Abs(result.all_options[k].travel_time_hours
                              * DocumentedSpeed(result.all_options[k].mode)
                          - call.distance_km)
                      <= DocumentedSpeed(result.all_options[k].mode)
       /\ (\E i \in 1 .. Len(Candidates) : Candidates[i] \notin TransportModes)
            => result = [status |-> "ValueError"]

C18_Witness ==
    /\ Recommends
    /\ Candidates = <<"road_truck", "rail", "ship_container">>
    /\ call.distance_km = 5000
    /\ call.weight_tonnes = 20
    /\ result.travel_time_hours = Fraction(20, 1)
    /\ result.all_options[2].mode = "rail"
    /\ result.all_options[2].travel_time_hours = 100
    /\ result.all_options[3].travel_time_hours = 62

(* C19: when the candidate list holds a mode absent from the catalog,
   find_greenest_option fails with the ValueError of calculate_emissions and
   returns no recommendation made from the other candidates. *)
C19_AbsentCandidateFailsCall ==
    (/\ call.op = "find_greenest_option"
     /\ \E i \in 1 .. Len(Candidates) : Candidates[i] \notin DOMAIN emission_factors)
    => result = [status |-> "ValueError"]

C19_Witness ==
    /\ call.op = "find_greenest_option"
    /\ PositiveShipment
    /\ Candidates = <<"rail", "bicycle">>
    /\ result.status = "ValueError"

(* C20: for a positive distance d and weight w and a catalog mode m, the
   co2_emissions_kg of (2d, w, m) and of (d, 2w, m) are each within 0.001 kg of
   twice the co2_emissions_kg of (d, w, m). *)
C20_DoublingDoubles ==
    (/\ call.op = "calculate_emissions"
     /\ PositiveShipment
     /\ call.transport_mode \in TransportModes)
    => /\ Abs(calculate_emissions(emission_factors, 2 * call.distance_km,
                                  call.weight_tonnes, call.transport_mode).co2_emissions_kg
              - 2 * result.co2_emissions_kg) <= 1
       /\ Abs(calculate_emissions(emission_factors, call.distance_km,
                                  2 * call.weight_tonnes, call.transport_mode).co2_emissions_kg
              - 2 * result.co2_emissions_kg) <= 1

C20_Witness ==
    /\ call.op = "calculate_emissions"
    /\ PositiveShipment
    /\ call.transport_mode = "road_truck"
    /\ result.co2_emissions_kg = 1
    /\ calculate_emissions(emission_factors, 2 * call.distance_km, call.weight_tonnes,
                           call.transport_mode).co2_emissions_kg = 1

(* C21: the catalog is total on TransportMode: every member is a key of
   emission_factors, the mode of its entry is the key, its factor is positive;
   and calculate_emissions never raises the invalid-mode error for a member. *)
C21_CatalogIsTotal ==
    /\ \A i \in 1 .. Len(TransportMode) :
          /\ TransportMode[i] \in DOMAIN emission_factors
          /\ emission_factors[TransportMode[i]].mode = TransportMode[i]
          /\ emission_factors[TransportMode[i]].factor_kg_co2_per_tonne_km > 0
    /\ (call.op = "calculate_emissions" /\ call.transport_mode \in TransportModes)
          => result.status = "ok"

C21_Witness ==
    /\ call.op = "calculate_emissions"
    /\ call.transport_mode = TransportMode[Len(TransportMode)]
    /\ result.status = "ok"
    /\ result.emission_factor = 8

(* C22: get_emission_factors_table returns exactly one row per catalog mode
   (six rows), in non-decreasing order of the emission factor, each row with
   the factor of its mode, and leaves the catalog as it was loaded. *)
C22_FactorsTable ==
    call.op = "get_emission_factors_table"
    => /\ result.status = "ok"
       /\ Len(result.rows) = 6
       /\ \A m \in DOMAIN emission_factors :
             \E k \in 1 .. Len(result.rows) :
                /\ result.rows[k].transport_mode = m
                /\ result.rows[k].emission_factor_kg_co2_per_tonne_km
                      = emission_factors[m].factor_kg_co2_per_tonne_km
                /\ \A j \in 1 .. Len(result.rows) :
                      result.rows[j].transport_mode = m => j = k
       /\ \A k \in 1 .. Len(result.rows) - 1 :
             result.rows[k].emission_factor_kg_co2_per_tonne_km
                <= result.rows[k + 1].emission_factor_kg_co2_per_tonne_km
       /\ emission_factors = load_emission_factors

C22_Witness ==
    /\ call.op = "get_emission_factors_table"
    /\ result.status = "ok"
    /\ [k \in 1 .. Len(result.rows) |-> result.rows[k].transport_mode]
          = <<"ship_bulk", "ship_container", "rail", "road_truck", "road_van", "air_cargo">>

\* The product distance x weight x factor of a calculate_emissions call that
\* returned a record, exact, in units of 1/KgGrid thousandths of a kg.
ExactProduct ==
    call.distance_km * call.weight_tonnes
        * emission_factors[call.transport_mode].factor_kg_co2_per_tonne_km

Emitted == call.op = "calculate_emissions" /\ result.status = "ok"

(* C26 as claimed: co2_emissions_tonnes always equals co2_emissions_kg / 1000:
   the 3-decimal kg value and the 6-decimal tonne value never disagree (here
   for 0.1 km, 2.5 t by road truck, whose co2_emissions_kg is 0.015). *)
C26_TonnesEqualKg ==
    (/\ Emitted
     /\ call.distance_km = 1
     /\ call.weight_tonnes = 25
     /\ call.transport_mode = "road_truck"
     /\ result.co2_emissions_kg = 15)
    => result.co2_emissions_tonnes = result.co2_emissions_kg

(* C26 as amended: co2_emissions_tonnes is the full-precision product / 1000
   rounded to 6 decimals (a multiple of 0.000001 t nearest to it), and
   co2_emissions_kg the product rounded to 3 decimals; the two agree unless the
   product is an exact decimal half of 0.001 kg, where they are one of its two
   neighbours each and differ by at most 0.001 kg. *)
C26_TonnesFromFullPrecision ==
    Emitted
    => /\ 2 * Abs(result.co2_emissions_tonnes * KgGrid - ExactProduct) <= KgGrid
       /\ 2 * Abs(result.co2_emissions_kg * KgGrid - ExactProduct) <= KgGrid
       /\ 2 * (ExactProduct % KgGrid) # KgGrid
             => result.co2_emissions_tonnes = result.co2_emissions_kg
       /\ Abs(result.co2_emissions_tonnes - result.co2_emissions_kg) <= 1

C26_Witness ==
    /\ Emitted
    /\ call.distance_km = 1
    /\ call.weight_tonnes = 25
    /\ call.transport_mode = "road_truck"
    /\ result.co2_emissions_kg = 15
    /\ result.co2_emissions_tonnes = 16

OptionModes == [k \in 1 .. Len(result.all_options) |-> result.all_options[k].mode]

(* C27: in every recommendation of find_greenest_option, all_options has one
   entry per element of the candidate list (a mode listed twice has two
   entries), each with the co2_emissions_kg of its mode, in non-decreasing
   order of co2_emissions_kg, and its first entry is the recommended_mode. *)
C27_AllOptions ==
    Recommends
    => /\ Len(result.all_options) = Len(Candidates)
       /\ \A m \in Modes : Occurrences(OptionModes, m) = Occurrences(Candidates, m)
       /\ \A k \in 1 .. Len(result.all_options) :
             \E i \in 1 .. Len(Candidates) :
                /\ Candidates[i] = result.all_options[k].mode
                /\ CandidateCo2(i) = result.all_options[k].co2_emissions_kg
       /\ \A k \in 1 .. Len(result.all_options) - 1 :
             result.all_options[k].co2_emissions_kg
                <= result.all_options[k + 1].co2_emissions_kg
       /\ result.all_options[1].mode = result.recommended_mode

C27_Witness ==
    /\ Recommends
    /\ PositiveShipment
    /\ Candidates = <<"road_truck", "road_truck">>
    /\ OptionModes = <<"road_truck", "road_truck">>
    /\ result.recommended_mode = "road_truck"

(* C28: for a positive distance and weight and a non-empty list of catalog
   modes, the mode that find_greenest_option recommends has the least emission
   factor of the candidates: the ranking on the rounded co2_emissions_kg never
   puts a candidate of a larger factor before one of a smaller factor. *)
C28_LeastFactorRecommended ==
    (/\ Recommends
     /\ PositiveShipment
     /\ \A i \in 1 .. Len(Candidates) : Candidates[i] \in TransportModes)
    => \A i \in 1 .. Len(Candidates) :
          emission_factors[result.recommended_mode].factor_kg_co2_per_tonne_km
             <= emission_factors[Candidates[i]].factor_kg_co2_per_tonne_km

(* C29: for a positive distance and weight and a non-empty list of catalog
   modes, the recommendation has emission_savings_vs_fastest >= 0 and
   0 <= emission_reduction_percent <= 100: the fastest candidate never emits
   less than the greenest one. *)
C29_SavingsNeverNegative ==
    (/\ Recommends
     /\ PositiveShipment
     /\ \A i \in 1 .. Len(Candidates) : Candidates[i] \in TransportModes)
    => /\ result.co2_emissions_kg <= FastestCo2
       /\ result.emission_savings_vs_fastest >= 0
       /\ result.emission_reduction_percent >= 0
       /\ result.emission_reduction_percent <= 1000

C29_Witness ==
    /\ Recommends
    /\ PositiveShipment
    /\ Candidates = <<"air_cargo", "rail">>
    /\ result.recommended_mode = "rail"
    /\ result.emission_savings_vs_fastest > 0
    /\ result.emission_reduction_percent > 0
    /\ result.emission_reduction_percent < 1000

\* What find_greenest_option returns for the distance, the weight and the
\* modes of a compare_transport_modes call (the float outcomes bear on neither
\* the recommended mode nor the order of all_options).
GreenestOfRequested ==
    find_greenest_option(emission_factors, call.distance_km, call.weight_tonnes,
                         Requested, FALSE, 0,
                         [penalty_up |-> FALSE, savings_up |-> FALSE,
                          within_at_bound |-> FALSE])

(* C30: find_greenest_option and compare_transport_modes agree on the same
   distance, weight and non-empty list of catalog modes (here positive distance
   and weight): recommended_mode is the transport_mode of the rank-1 row, and
   all_options lists the modes in the order of the rows, modes of equal
   co2_emissions_kg included. *)
C30_OptimizerAgreesWithComparison ==
    (/\ call.op = "compare_transport_modes"
     /\ PositiveShipment
     /\ Requested # <<>>
     /\ \A i \in 1 .. Len(Requested) : Requested[i] \in TransportModes)
    => /\ GreenestOfRequested.recommended_mode = result.rows[1].transport_mode
       /\ [k \in 1 .. Len(GreenestOfRequested.all_options) |->
              GreenestOfRequested.all_options[k].mode] = RowModes

(* C23: whatever calls are made (calculate_emissions, compare_transport_modes,
   calculate_carbon_tax_cost, get_emission_factors_table, find_greenest_option,
   returning or raising), no step changes the catalog emission_factors, and a
   call made again with the same arguments returns what it returned first. *)
C23_CatalogUnchangedCallsRepeatable ==
    [][/\ emission_factors' = emission_factors
       /\ call'.op = "again" => (call'.first = call /\ result' = result)]_vars

C23_Witness ==
    /\ call.op = "again"
    /\ call.first.op = "find_greenest_option"
    /\ call.first.available_modes = <<"road_truck", "rail", "ship_container">>
    /\ call.first.distance_km = 5000
    /\ result.status = "ok"
    /\ result.recommended_mode = "ship_container"
    /\ emission_factors = load_emission_factors

(* C25: within one process, whatever EmissionCalculator and EmissionOptimizer
   objects are constructed and used, _load_emission_factors runs exactly once,
   and it has run when a calculation is made. *)
C25_CatalogLoadedOnce ==
    /\ loads <= 1
    /\ call.op = "calculate_emissions" => loads = 1

(* C24: however the steps of concurrent calls of calculate_emissions,
   compare_transport_modes, calculate_carbon_tax_cost and find_greenest_option
   on one calculator interleave, with no lock, each call ends with a result
   that the same call returns when it runs alone; and the catalog stays as it
   was loaded. *)
C24_ConcurrentCallsAsAlone ==
    /\ emission_factors = load_emission_factors
    /\ \A t \in Threads :
          threads[t].pc = "done"
          => MayReturn(emission_factors, threads[t].call, threads[t].result)

C24_Witness ==
    /\ threads["a"].pc = "done"
    /\ threads["a"].call.op = "find_greenest_option"
    /\ threads["a"].call.available_modes = <<"rail", "ship_container">>
    /\ threads["a"].call.distance_km = 5000
    /\ threads["a"].result.status = "ok"
    /\ threads["a"].result.recommended_mode = "ship_container"
    /\ threads["b"].pc = "line113"
    /\ threads["b"].call.op = "calculate_emissions"
    /\ threads["b"].factor.mode = "rail"

=============================================================================
